---- MODULE Spec2Model ----
(***************************************************************************)
(* Model of the two route handlers of tweet-to-blog:                       *)
(*   DELETE  (bulk delete of the tweet store)                              *)
(*   POST    /api/tweets/[id]/publish  (publish / unpublish an article)    *)
(* The tweet store and the settings store (@/lib/db) and the WordPress     *)
(* REST API are collaborators: their answers are inputs of the steps.      *)
(* Requests are served one after the other; a handler advances from one    *)
(* awaited call to the next.                                               *)
(***************************************************************************)
EXTENDS Integers, Sequences, FiniteSets, TLC

VARIABLES
  rows,            \* tweet store: number of stored rows
  pos,             \* tweet store: position of each tracked tweet in getAll order (0 = absent)
  pub,             \* tweet store: published flag per tracked tweet and language
  link,            \* tweet store: published link per tracked tweet and language
  pc,              \* position of the handler serving the current request
  req,             \* the current request as the handler parsed it
  mediaUrls,       \* POST: the URLs extracted from tweet.media_urls
  idx,             \* POST: index of the URL the upload loop is at
  uploadedImages,  \* POST: the successful uploads so far
  postData,        \* POST: the post submitted to WordPress
  publishData,     \* POST: the body of WordPress' 201 answer
  wpAnswer,        \* history: what the posts endpoint answered
  response,        \* the response of the handler
  calls,           \* history: calls the current request made, in order
  updates,         \* history: arguments of the current request's updatePublished calls
  results,         \* history: per media URL, what its upload returned
  pre,             \* history: the store as it was when the request arrived
  afterDelete      \* history: a DELETE succeeded and nothing was inserted since

vars == <<rows, pos, pub, link, pc, req, mediaUrls, idx, uploadedImages, postData,
          publishData, wpAnswer, response, calls, updates, results, pre, afterDelete>>

storeVars == <<rows, pos, pub, link>>
postVars == <<mediaUrls, idx, uploadedImages, postData, publishData, wpAnswer, results>>

(***************************************************************************)
(* Bounds and constants                                                    *)
(***************************************************************************)
MaxMedia == 3               \* longest media_urls array a stored tweet carries
GetAllLimit == 10000        \* tweets.getAll(10000, 0)
Created == 201              \* the status WordPress answers a creation with

Lang == {"english", "french"}
TweetIds == {1}             \* ids of the tweets whose rows are tracked
Links == {"L1", "L2"}       \* links WordPress gives to created posts
PostIds == {5}
Null == "null"
Undefined == "undefined"

\* JS values of the path parameter, as sequences of characters
IdParams == {<<"1">>, <<"2">>, <<"a">>, <<"1", "a">>}

Digit(c) == CASE c = "0" -> 0 [] c = "1" -> 1 [] c = "2" -> 2 [] c = "3" -> 3
              [] c = "4" -> 4 [] c = "5" -> 5 [] c = "6" -> 6 [] c = "7" -> 7
              [] c = "8" -> 8 [] c = "9" -> 9 [] OTHER -> -1

NaN == [nan |-> TRUE, val |-> 0]

RECURSIVE SkipSpace(_)
SkipSpace(s) == IF s # <<>> /\ Head(s) = " " THEN SkipSpace(Tail(s)) ELSE s

RECURSIVE Digits(_, _)
\* value of the longest prefix of digits of s, continuing from acc
Digits(s, acc) ==
  IF s # <<>> /\ Digit(Head(s)) >= 0
    THEN Digits(Tail(s), acc * 10 + Digit(Head(s)))
    ELSE acc

\* parseInt(string): leading white space, a sign, then the longest prefix of digits
parseInt(str) ==
  LET s == SkipSpace(str)
      neg == s # <<>> /\ Head(s) = "-"
      t == IF s # <<>> /\ Head(s) \in {"-", "+"} THEN Tail(s) ELSE s
  IN  IF t = <<>> \/ Digit(Head(t)) < 0
        THEN NaN
        ELSE [nan |-> FALSE, val |-> IF neg THEN 0 - Digits(t, 0) ELSE Digits(t, 0)]

isNaN(n) == n.nan

(***************************************************************************)
(* Request bodies                                                          *)
(***************************************************************************)
Bodies ==
  [kind : {"object"}, language : Lang \cup {"german", Undefined},
   published : {"true", "false", Undefined}, status : {Undefined, "draft"}]
  \cup [kind : {"notjson", "null", "primitive"}, language : {Undefined},
        published : {Undefined}, status : {Undefined}]

\* await request.json() rejects when the body is not JSON
JsonThrows(body) == body.kind = "notjson"
\* const { language, published, status } = <value>: a TypeError on null
DestructureThrows(body) == body.kind = "null"

Truthy(v) == v \notin {"false", Undefined, Null, ""}

(***************************************************************************)
(* Responses                                                               *)
(***************************************************************************)
NoBody == [kind |-> "none", content |-> ""]
NoResponse ==
  [status |-> 0, success |-> FALSE, error |-> "", details |-> NoBody,
   link |-> Null, post_id |-> 0, deletedCount |-> 0]

ErrorResponse(status, error) ==
  [NoResponse EXCEPT !.status = status, !.error = error]

ErrorDetails(status, error, details) ==
  [NoResponse EXCEPT !.status = status, !.error = error, !.details = details]

NoReq ==
  [method |-> "none", id |-> NaN, language |-> Undefined, published |-> Undefined,
   status |-> Undefined, body |-> "none"]

NoPost == [sent |-> FALSE, status |-> "", featured_media |-> 0, gallery |-> <<>>]
NoPublishData == [id |-> 0, link |-> Null]
NoAnswer == [kind |-> "none", status |-> 0, content |-> "", id |-> 0, link |-> Null]

Snapshot ==
  [rows |-> rows, pos |-> pos, pub |-> pub, link |-> link, afterDelete |-> afterDelete]

(***************************************************************************)
(* The tweet store (tweets.* of @/lib/db)                                  *)
(***************************************************************************)
NoFlags == [l \in Lang |-> FALSE]
NoLinks == [l \in Lang |-> Null]

\* tweets.getCount()
getCount == rows

\* tweets.getAll(limit, offset): the tracked tweets among the rows of the page
getAll(limit, offset) == {t \in TweetIds : pos[t] > offset /\ pos[t] <= offset + limit}

\* tweets.deleteAll(): removes every row
deleteAll ==
  /\ rows' = 0
  /\ pos' = [t \in TweetIds |-> 0]
  /\ pub' = [t \in TweetIds |-> NoFlags]
  /\ link' = [t \in TweetIds |-> NoLinks]

\* tweets.updatePublished(id, language, published, link), when it reports success
updatePublished(id, language, published, lnk) ==
  /\ pub' = [pub EXCEPT ![id][language] = published]
  /\ link' = [link EXCEPT ![id][language] = lnk]
  /\ UNCHANGED <<rows, pos>>

Init ==
  /\ rows = 0
  /\ pos = [t \in TweetIds |-> 0]
  /\ pub = [t \in TweetIds |-> NoFlags]
  /\ link = [t \in TweetIds |-> NoLinks]
  /\ pc = "idle"
  /\ req = NoReq
  /\ mediaUrls = <<>>
  /\ idx = 0
  /\ uploadedImages = <<>>
  /\ postData = NoPost
  /\ publishData = NoPublishData
  /\ wpAnswer = NoAnswer
  /\ response = NoResponse
  /\ calls = <<>>
  /\ updates = <<>>
  /\ results = <<>>
  /\ pre = [rows |-> 0, pos |-> [t \in TweetIds |-> 0],
            pub |-> [t \in TweetIds |-> NoFlags], link |-> [t \in TweetIds |-> NoLinks],
            afterDelete |-> FALSE]
  /\ afterDelete = FALSE

handlerVars == <<pc, req, mediaUrls, idx, uploadedImages, postData, publishData, wpAnswer,
                 response, calls, updates, results, pre>>

\* another route stores a tweet: its row comes first or last in getAll order
InsertTweet(t, atFront) ==
  /\ pc = "idle"
  /\ pos[t] = 0
  /\ rows' = rows + 1
  /\ pos' = [u \in TweetIds |->
               IF u = t THEN (IF atFront THEN 1 ELSE rows + 1)
               ELSE IF atFront /\ pos[u] > 0 THEN pos[u] + 1 ELSE pos[u]]
  /\ afterDelete' = FALSE
  /\ UNCHANGED <<pub, link, handlerVars>>

\* another route stores a batch of other tweets, before or after the stored rows
ImportRows(atFront) ==
  /\ pc = "idle"
  /\ rows < GetAllLimit
  /\ rows' = rows + GetAllLimit
  /\ pos' = [u \in TweetIds |->
               IF atFront /\ pos[u] > 0 THEN pos[u] + GetAllLimit ELSE pos[u]]
  /\ afterDelete' = FALSE
  /\ UNCHANGED <<pub, link, handlerVars>>

\* the response leaves and the handler's locals with it; the next request can arrive
Finish ==
  /\ pc = "done"
  /\ pc' = "idle"
  /\ req' = NoReq
  /\ mediaUrls' = <<>>
  /\ idx' = 0
  /\ uploadedImages' = <<>>
  /\ postData' = NoPost
  /\ publishData' = NoPublishData
  /\ wpAnswer' = NoAnswer
  /\ response' = NoResponse
  /\ calls' = <<>>
  /\ updates' = <<>>
  /\ results' = <<>>
  /\ UNCHANGED <<storeVars, pre, afterDelete>>

\* a request arrives
Arrive ==
  /\ pc = "idle"
  /\ pre' = Snapshot

Respond(r) ==
  /\ response' = r
  /\ pc' = "done"

\* the log of a call: the operation, the index of the media URL it is for (0: none)
\* and how a store or WordPress call ended
Call(op, i, out) == calls' = Append(calls, [op |-> op, i |-> i, out |-> out])

Out(ok) == IF ok THEN "ok" ELSE "throw"

(***************************************************************************)
(* DELETE: delete every tweet                                              *)
(***************************************************************************)
DeleteFailed == ErrorResponse(500, "Failed to delete tweets")

\* variant: answers with the count read after the deletion
DeleteSucceededRecount(deletedCount) ==
  [NoResponse EXCEPT !.status = 200, !.success = TRUE, !.deletedCount = rows']

DeleteSucceeded(deletedCount) ==
  [NoResponse EXCEPT !.status = 200, !.success = TRUE, !.deletedCount = deletedCount]

\* const countBefore = await tweets.getCount()
DeleteGetCount(ok) ==
  /\ Arrive
  /\ req' = [NoReq EXCEPT !.method = "DELETE"]
  /\ Call("getCount", 0, Out(ok))
  /\ IF ok THEN pc' = "deleteAll" /\ response' = NoResponse
           ELSE Respond(DeleteFailed)
  /\ UNCHANGED <<storeVars, postVars, updates, afterDelete>>

\* const deletedCount = await tweets.deleteAll(), and the response
DeleteAll(ok) ==
  /\ pc = "deleteAll"
  /\ Call("deleteAll", 0, Out(ok))
  /\ IF ok
       THEN /\ deleteAll
            /\ Respond(DeleteSucceeded(rows))
            /\ afterDelete' = TRUE
       ELSE /\ Respond(DeleteFailed)
            /\ UNCHANGED <<storeVars, afterDelete>>
  /\ UNCHANGED <<req, postVars, updates, pre>>

(***************************************************************************)
(* POST: publish or unpublish the article of a tweet                       *)
(***************************************************************************)
PublishFailed == ErrorResponse(500, "Failed to publish article")
InvalidId == ErrorResponse(400, "Invalid tweet ID")
InvalidLanguage == ErrorResponse(400, "Invalid language")
NotFound == ErrorResponse(404, "Tweet not found")
UpdateFailed == ErrorResponse(500, "Failed to update tweet status")
NotGenerated == ErrorResponse(400, "Article not generated")
InvalidData == ErrorResponse(400, "Invalid article data format")
InvalidFormat == ErrorResponse(400, "Invalid article format: missing title or content")
NotConfigured == ErrorResponse(500, "WordPress credentials not configured")

\* the handler up to its first store call: NoResponse when it goes on
Validate(id, body) ==
  IF JsonThrows(body) \/ DestructureThrows(body) THEN PublishFailed
  ELSE IF isNaN(id) THEN InvalidId
  ELSE IF body.language # "english" /\ body.language # "french" THEN InvalidLanguage
  ELSE NoResponse

PostStart(idParam, body) ==
  /\ Arrive
  /\ LET id == parseInt(idParam)
         r == Validate(id, body)
     IN  /\ req' = [method |-> "POST", id |-> id, language |-> body.language,
                    published |-> body.published, status |-> body.status,
                    body |-> body.kind]
         /\ IF r = NoResponse THEN pc' = "getAll" /\ response' = NoResponse
                              ELSE Respond(r)
  /\ UNCHANGED <<storeVars, postVars, calls, updates, afterDelete>>

\* allTweets.find((t) => t.id === id)
find(allTweets, id) == id.val \in allTweets

\* what the row holds in article_<language>
Articles == {"absent", "badjson", "jsonnull", "notitle", "nobody", "ok"}

\* the checks of the article: NoResponse when it is usable
ArticleCheck(article) ==
  CASE article = "absent" -> NotGenerated
    [] article = "badjson" -> InvalidData
    [] article = "jsonnull" -> PublishFailed      \* articleData.title of null
    [] article \in {"notitle", "nobody"} -> InvalidFormat
    [] OTHER -> NoResponse

\* the elements a media_urls array holds
Items ==
  { [kind |-> "string", value |-> "a", mediaUrl |-> "", url |-> ""],
    [kind |-> "object", value |-> "", mediaUrl |-> "a", url |-> ""],
    [kind |-> "object", value |-> "", mediaUrl |-> "", url |-> "a"],
    [kind |-> "object", value |-> "", mediaUrl |-> "", url |-> ""],
    [kind |-> "null", value |-> "", mediaUrl |-> "", url |-> ""] }

RECURSIVE SeqsUpTo(_, _)
SeqsUpTo(S, n) ==
  IF n = 0 THEN {<<>>}
  ELSE LET shorter == SeqsUpTo(S, n - 1)
       IN  shorter \cup {Append(q, x) : q \in shorter, x \in S}

\* what the row holds in media_urls
Media ==
  [kind : {"absent", "badjson", "notarray"}, items : {<<>>}]
  \cup [kind : {"array"}, items : SeqsUpTo(Items, MaxMedia)]

RECURSIVE forEach(_, _)
\* media.forEach(...): the URLs pushed; reading a field of a null item throws,
\* the catch ignores it and the URLs pushed before stay
forEach(items, acc) ==
  IF items = <<>> THEN acc
  ELSE LET item == Head(items)
           url == IF item.kind = "string" THEN item.value
                  ELSE IF Truthy(item.mediaUrl) THEN item.mediaUrl
                  ELSE IF Truthy(item.url) THEN item.url
                  ELSE Null
       IN  IF item.kind = "null" THEN acc
           ELSE forEach(Tail(items), IF Truthy(url) THEN Append(acc, url) ELSE acc)

ExtractUrls(media) ==
  IF media.kind = "array" /\ Len(media.items) > 0 THEN forEach(media.items, <<>>)
  ELSE <<>>

NoMedia == [kind |-> "absent", items |-> <<>>]

\* what the store answers to getAll: an exception, or rows; of the row of the
\* tweet, the article of the language and media_urls
GetAllAnswers ==
  [ok : {FALSE}, article : {"absent"}, media : {NoMedia}]
  \cup [ok : {TRUE}, article : Articles \ {"ok"}, media : {NoMedia}]
  \cup [ok : {TRUE}, article : {"ok"}, media : Media]

\* tweets.getAll, the lookup, the unpublish branch, the article and the media URLs
GetAll(a) ==
  /\ pc = "getAll"
  /\ Call("getAll", 0, Out(a.ok))
  /\ IF ~a.ok THEN Respond(PublishFailed) /\ UNCHANGED mediaUrls
     ELSE IF ~find(getAll(GetAllLimit, 0), req.id) THEN Respond(NotFound) /\ UNCHANGED mediaUrls
     ELSE IF ~Truthy(req.published)
       THEN pc' = "unpublish" /\ UNCHANGED <<response, mediaUrls>>
     ELSE IF ArticleCheck(a.article) # NoResponse
       THEN Respond(ArticleCheck(a.article)) /\ UNCHANGED mediaUrls
     ELSE /\ mediaUrls' = ExtractUrls(a.media)
          /\ pc' = "settings"
          /\ UNCHANGED response
  /\ UNCHANGED <<storeVars, req, idx, uploadedImages, postData, publishData, wpAnswer, results,
                 updates, pre, afterDelete>>

Update(id, language, published, lnk) ==
  [id |-> id, language |-> language, published |-> published, link |-> lnk]

\* variant: clears the flag and keeps the link
UnpublishArgsKeepLink(id, language) == Update(id, language, FALSE, link[id][language])

\* the arguments of the unpublish branch's store call
UnpublishArgs(id, language) == Update(id, language, FALSE, Null)

\* tweets.updatePublished(id, language, false, null) and the response
Unpublish(outcome) ==
  /\ pc = "unpublish"
  /\ Call("updatePublished", 0, outcome)
  /\ LET u == UnpublishArgs(req.id.val, req.language)
     IN  /\ updates' = Append(updates, u)
         /\ CASE outcome = "ok" ->
                   /\ updatePublished(u.id, u.language, u.published, u.link)
                   /\ Respond([NoResponse EXCEPT !.status = 200, !.success = TRUE])
              [] outcome = "false" -> Respond(UpdateFailed) /\ UNCHANGED storeVars
              [] OTHER -> Respond(PublishFailed) /\ UNCHANGED storeVars
  /\ UNCHANGED <<req, postVars, pre, afterDelete>>

\* the three settings.get(...) and the check of the credentials
Credentials == {"", "v"}

GetSettings(ok, wpUrl, wpUsername, wpPassword) ==
  /\ pc = "settings"
  /\ Call("settings.get", 0, Out(ok))
  /\ IF ~ok THEN Respond(PublishFailed) /\ UNCHANGED idx
     ELSE IF ~Truthy(wpUrl) \/ ~Truthy(wpUsername) \/ ~Truthy(wpPassword)
       THEN Respond(NotConfigured) /\ UNCHANGED idx
     ELSE /\ idx' = 1
          /\ pc' = IF Len(mediaUrls) >= 1 THEN "download" ELSE "createPost"
          /\ UNCHANGED response
  /\ UNCHANGED <<storeVars, req, mediaUrls, uploadedImages, postData, publishData, wpAnswer,
                 results, updates, pre, afterDelete>>

(***************************************************************************)
(* uploadImageToWordPress and the loop over mediaUrls                      *)
(***************************************************************************)
NoImage == [mediaId |-> 0, url |-> ""]

\* variant: the loop stops one URL short
AfterUploadShort(i) == IF i + 1 < Len(mediaUrls) THEN "download" ELSE "createPost"

\* where the loop goes once the upload of mediaUrls[i] has returned
AfterUpload(i) == IF i + 1 <= Len(mediaUrls) THEN "download" ELSE "createPost"

\* the upload of mediaUrls[idx] returned uploadResult
Returned(uploadResult) ==
  /\ results' = Append(results, uploadResult)
  /\ uploadedImages' = IF uploadResult # NoImage THEN Append(uploadedImages, uploadResult)
                                                 ELSE uploadedImages
  /\ idx' = idx + 1
  /\ pc' = AfterUpload(idx)

\* fetch(imageUrl) with its 30 s timeout, the file name and imgResponse.arrayBuffer()
Download(outcome) ==
  /\ pc = "download"
  /\ Call("download", idx, "")
  /\ IF outcome = "ok"
       THEN pc' = "upload" /\ UNCHANGED <<idx, uploadedImages, results>>
       ELSE Returned(NoImage)       \* not ok, or an exception: null
  /\ UNCHANGED <<storeVars, req, mediaUrls, postData, publishData, wpAnswer, response,
                 updates, pre, afterDelete>>

\* what the media endpoint answers to the i-th upload: WordPress gives every
\* upload an id and a URL of its own
SourceUrls == <<"s1", "s2", "s3", "s4", "s5">>
MediaLinks == <<"l1", "l2", "l3", "l4", "l5">>
MediaAnswers(i) ==
  { [kind |-> "throw", status |-> 0, id |-> 0, source_url |-> "", guid |-> "", link |-> ""],
    [kind |-> "body", status |-> 500, id |-> 0, source_url |-> "", guid |-> "", link |-> ""],
    [kind |-> "body", status |-> Created, id |-> 10 + i, source_url |-> SourceUrls[i],
     guid |-> "", link |-> MediaLinks[i]],
    [kind |-> "body", status |-> Created, id |-> 0, source_url |-> SourceUrls[i],
     guid |-> "", link |-> ""],
    [kind |-> "body", status |-> Created, id |-> 10 + i, source_url |-> "",
     guid |-> "", link |-> ""] }

\* the result of uploadImageToWordPress from the answer of the media endpoint
UploadResult(a) ==
  IF a.kind = "throw" THEN NoImage
  ELSE IF a.status = Created
    THEN LET uploadedUrl == IF Truthy(a.source_url) THEN a.source_url
                            ELSE IF Truthy(a.guid) THEN a.guid ELSE a.link
             mediaId == a.id
         IN  IF Truthy(uploadedUrl) /\ mediaId # 0
               THEN [mediaId |-> mediaId, url |-> uploadedUrl]
               ELSE NoImage
    ELSE NoImage

\* fetch(wpMediaUrl) with its 60 s timeout and the reading of the answer
MediaUpload(a) ==
  /\ pc = "upload"
  /\ Call("media", idx, "")
  /\ Returned(UploadResult(a))
  /\ UNCHANGED <<storeVars, req, mediaUrls, postData, publishData, wpAnswer, response,
                 updates, pre, afterDelete>>

(***************************************************************************)
(* The post, its creation and the record of it                             *)
(***************************************************************************)
\* variant: the gallery loop starts at the first image
ComposeAll(images, status) ==
  [sent |-> TRUE,
   status |-> IF Truthy(status) THEN status ELSE "publish",
   featured_media |-> IF Len(images) > 0 THEN images[1].mediaId ELSE 0,
   gallery |-> IF Len(images) > 1 THEN [i \in 1..Len(images) |-> images[i].url] ELSE <<>>]

\* featuredMediaId, imagesHtml (the URLs of its figures) and postData
Compose(images, status) ==
  LET featuredMediaId == IF Len(images) > 0 THEN images[1].mediaId ELSE 0
      imagesHtml == IF Len(images) > 1
                      THEN [i \in 1..(Len(images) - 1) |-> images[i + 1].url]
                      ELSE <<>>
  IN  [sent |-> TRUE,
       status |-> IF Truthy(status) THEN status ELSE "publish",
       featured_media |-> featuredMediaId,
       gallery |-> imagesHtml]

\* statuses whose Response carries no body; Response.json(body, {status}) throws on them
NullBodyStatus == {101, 103, 204, 205, 304}

\* what the posts endpoint answers
PostAnswers ==
  [kind : {"throw"}, status : {0}, content : {""}, id : {0}, link : {Null}]
  \cup [kind : {"json"}, status : {Created}, content : {"post"}, id : PostIds, link : Links]
  \cup [kind : {"text"}, status : {Created}, content : {"<html>"}, id : {0}, link : {Null}]
  \cup [kind : {"json"}, status : {200, 500}, content : {"E"}, id : {0}, link : {Null}]
  \cup [kind : {"text"}, status : {200, 500}, content : {"<html>"}, id : {0}, link : {Null}]
  \cup [kind : {"empty"}, status : {204}, content : {""}, id : {0}, link : {Null}]

\* variant: !response.ok
NotOk(status) == status < 200 \/ status > 299

\* response.status !== 201
NotCreated(status) == status # Created

\* the branch of a status other than 201
PassThrough(a) ==
  IF a.kind = "text"
    THEN PublishFailed      \* response.json() read the body: response.text() rejects
  ELSE IF a.status \in NullBodyStatus
    THEN PublishFailed      \* NextResponse.json(..., {status}) throws
  ELSE ErrorDetails(a.status, "WordPress API error",
                    [kind |-> IF a.kind = "json" THEN "json" ELSE "text",
                     content |-> a.content])

\* fetch(wpApiUrl) with its 60 s timeout, up to publishData = await response.json()
CreatePost(a) ==
  /\ pc = "createPost"
  /\ postData' = Compose(uploadedImages, req.status)
  /\ wpAnswer' = a
  /\ Call("post", 0, Out(a.kind # "throw"))
  /\ IF a.kind = "throw" THEN Respond(PublishFailed) /\ UNCHANGED publishData
     ELSE IF NotCreated(a.status) THEN Respond(PassThrough(a)) /\ UNCHANGED publishData
     ELSE IF a.kind # "json" THEN Respond(PublishFailed) /\ UNCHANGED publishData
     ELSE /\ publishData' = [id |-> a.id, link |-> a.link]
          /\ pc' = "record"
          /\ UNCHANGED response
  /\ UNCHANGED <<storeVars, req, mediaUrls, idx, uploadedImages, results, updates,
                 pre, afterDelete>>

\* variant: records the publication without its link
PublishArgsNoLink(id, language, data) == Update(id, language, TRUE, Null)

\* the arguments of the publish branch's store call
PublishArgs(id, language, data) == Update(id, language, TRUE, data.link)

\* variant: the result of updatePublished is not looked at
RecordedAnyway(success, data) ==
  [NoResponse EXCEPT !.status = 200, !.success = TRUE,
                     !.post_id = data.id, !.link = data.link]

\* the response once updatePublished has returned
Recorded(success, data) ==
  IF ~success THEN UpdateFailed
  ELSE [NoResponse EXCEPT !.status = 200, !.success = TRUE,
                          !.post_id = data.id, !.link = data.link]

\* tweets.updatePublished(id, language, true, publishData.link) and the response
Record(outcome) ==
  /\ pc = "record"
  /\ Call("updatePublished", 0, outcome)
  /\ LET u == PublishArgs(req.id.val, req.language, publishData)
     IN  /\ updates' = Append(updates, u)
         /\ CASE outcome = "ok" ->
                   /\ updatePublished(u.id, u.language, u.published, u.link)
                   /\ Respond(Recorded(TRUE, publishData))
              [] outcome = "false" ->
                   /\ Respond(Recorded(FALSE, publishData))
                   /\ UNCHANGED storeVars
              [] OTHER -> Respond(PublishFailed) /\ UNCHANGED storeVars
  /\ UNCHANGED <<req, postVars, pre, afterDelete>>

(***************************************************************************)
(* The system                                                              *)
(***************************************************************************)
StoreOutcomes == {"ok", "false", "throw"}

Step ==
  \/ \E ok \in BOOLEAN : DeleteAll(ok)
  \/ \E a \in GetAllAnswers : GetAll(a)
  \/ \E outcome \in StoreOutcomes : Unpublish(outcome)
  \/ \E ok \in BOOLEAN, u \in Credentials, n \in Credentials, p \in Credentials :
       GetSettings(ok, u, n, p)
  \/ \E outcome \in {"ok", "notok", "throw"} : Download(outcome)
  \/ pc = "upload" /\ \E a \in MediaAnswers(idx) : MediaUpload(a)
  \/ \E a \in PostAnswers : CreatePost(a)
  \/ \E outcome \in StoreOutcomes : Record(outcome)
  \/ Finish

Next ==
  \/ \E t \in TweetIds, atFront \in BOOLEAN : InsertTweet(t, atFront)
  \/ \E atFront \in BOOLEAN : ImportRows(atFront)
  \/ \E ok \in BOOLEAN : DeleteGetCount(ok)
  \/ \E idParam \in IdParams, body \in Bodies : PostStart(idParam, body)
  \/ Step

Spec == Init /\ [][Next]_vars

\* every awaited call returns or times out, so a handler that started goes on
FairSpec == Spec /\ WF_vars(Step)

(***************************************************************************)
(* Properties                                                              *)
(***************************************************************************)
Done == pc = "done"
IsPost == req.method = "POST"
Calls(op) == {i \in DOMAIN calls : calls[i].op = op}
WordPressOps == {"download", "media", "post"}
NoWordPressCall == \A i \in DOMAIN calls : calls[i].op \notin WordPressOps
StoreUnchanged == pub = pre.pub /\ link = pre.link
ValidRequest == IsPost /\ ~isNaN(req.id) /\ req.language \in Lang
\* the tweet of the request was in the store when the request arrived
Existed == req.id.val \in TweetIds /\ pre.pos[req.id.val] > 0
AnsweredNotCreated == wpAnswer.kind \notin {"none", "throw"} /\ wpAnswer.status # Created
AnsweredCreated == wpAnswer.kind = "json" /\ wpAnswer.status = Created

\* C1: updatePublished(id, language, true, link) is called only after the posts
\* endpoint answered this request with 201, and a request that ends in an error
\* response leaves the published flags and links of the store as they were.
C1_PublishedOnlyAfterCreated ==
  /\ \A i \in DOMAIN updates :
       updates[i].published =>
         /\ wpAnswer.status = Created
         /\ \E j \in Calls("post"), k \in Calls("updatePublished") : j < k
  /\ (Done /\ IsPost /\ ~response.success) => StoreUnchanged

C1_Witness ==
  /\ Done /\ IsPost /\ ~response.success
  /\ wpAnswer.status = 500
  /\ \E t \in TweetIds : pre.pub[t][req.language] /\ pre.link[t][req.language] \in Links

\* C2 (as stated): whatever status s other than 201 and whatever body the posts
\* endpoint answers, the response has status s and the upstream body, and
\* updatePublished is not called.
C2_PassThroughAlways ==
  (Done /\ IsPost /\ AnsweredNotCreated) =>
    /\ response.status = wpAnswer.status
    /\ response.details.content = wpAnswer.content
    /\ updates = <<>>

\* C3 (as stated): a request with a valid id, a supported language, a stored tweet
\* and published = false makes no WordPress call and leaves the flag false and the
\* link null.
C3_AlwaysCleared ==
  (Done /\ ValidRequest /\ Existed /\ req.published = "false") =>
    /\ NoWordPressCall
    /\ ~pub[req.id.val][req.language]
    /\ link[req.id.val][req.language] = Null

\* C3 (amended): a request with published = false makes no WordPress call, and
\* when it is answered {success: true} the flag is false and the link is null.
C3_ClearedOnSuccess ==
  /\ (IsPost /\ req.published = "false") => NoWordPressCall
  /\ (Done /\ IsPost /\ req.published = "false" /\ response.success) =>
       /\ ~pub[req.id.val][req.language]
       /\ link[req.id.val][req.language] = Null

C3_Witness ==
  /\ Done /\ IsPost /\ req.published = "false" /\ response.success
  /\ pre.pub[req.id.val][req.language]
  /\ pre.link[req.id.val][req.language] \in Links

\* C4 (as stated): an id that does not parse to a number is answered 400
\* 'Invalid tweet ID' whatever the body is, and no store or WordPress call is made.
C4_InvalidIdAlways400 ==
  (Done /\ IsPost /\ isNaN(req.id)) => (response = InvalidId /\ calls = <<>>)

\* the indices of the media URLs whose upload returned an image
Uploaded == {i \in DOMAIN results : results[i] # NoImage}
First(S) == CHOOSE i \in S : \A j \in S : i <= j

RECURSIVE Ascending(_)
\* the elements of a set of numbers, smallest first
Ascending(S) == IF S = {} THEN <<>> ELSE <<First(S)>> \o Ascending(S \ {First(S)})

\* C5: the post submitted to WordPress has the media id of the first URL whose
\* upload succeeded as featured_media (none when no upload succeeded), and its
\* gallery holds the other successful uploads in input order (none when fewer
\* than two succeeded); with three URLs of which the second fails, the first is
\* featured and the gallery holds the third alone.
C5_FeaturedAndGallery ==
  postData.sent =>
    /\ Len(results) = Len(mediaUrls)
    /\ postData.featured_media =
         IF Uploaded = {} THEN 0 ELSE results[First(Uploaded)].mediaId
    /\ postData.gallery =
         IF Cardinality(Uploaded) < 2 THEN <<>>
         ELSE LET rest == Ascending(Uploaded \ {First(Uploaded)})
              IN  [k \in DOMAIN rest |-> results[rest[k]].url]
    /\ (Len(mediaUrls) = 3 /\ Uploaded = {1, 3}) =>
         /\ postData.featured_media = results[1].mediaId
         /\ postData.gallery = <<results[3].url>>

C5_Witness ==
  postData.sent /\ Len(mediaUrls) = 3 /\ Uploaded = {1, 3}

\* C6: when the posts endpoint answers 201 with {id, link}, the store is called
\* exactly once, with updatePublished(id, language, true, link) for the tweet and
\* the language of the request, and when that call succeeds the response is a 200
\* with that link and the id of the post.
C6_RecordedWithLink ==
  (Done /\ IsPost /\ AnsweredCreated) =>
    /\ updates = <<Update(req.id.val, req.language, TRUE, wpAnswer.link)>>
    /\ Cardinality(Calls("updatePublished")) = 1
    /\ \A k \in Calls("updatePublished") :
         calls[k].out = "ok" =>
           /\ response.status = 200 /\ response.success
           /\ response.link = wpAnswer.link
           /\ response.post_id = wpAnswer.id

C6_Witness ==
  /\ Done /\ IsPost /\ AnsweredCreated /\ response.success
  /\ pre.link[req.id.val][req.language] \in Links \ {wpAnswer.link}

\* C7: a DELETE on a store of N rows answers deletedCount = N and leaves the
\* store empty; a DELETE after a DELETE, nothing inserted in between, answers 0;
\* when getCount or deleteAll fails the answer is a 500 with an error message.
C7_DeleteAll ==
  (Done /\ req.method = "DELETE") =>
    /\ response.success =>
         /\ response.status = 200
         /\ response.deletedCount = pre.rows
         /\ rows = 0 /\ \A t \in TweetIds : pos[t] = 0
         /\ pre.afterDelete => response.deletedCount = 0
    /\ (\E i \in DOMAIN calls : calls[i].out = "throw") =>
         response.status = 500 /\ response.error # "" /\ ~response.success

C7_Witness ==
  /\ Done /\ req.method = "DELETE" /\ response.success
  /\ response.deletedCount > GetAllLimit

\* C8 (as stated): with an integer id and a supported language, the answer is 404
\* 'Tweet not found' if and only if the store holds no tweet with that id.
C8_NotFoundIffAbsent ==
  (Done /\ ValidRequest /\ \E i \in Calls("getAll") : calls[i].out = "ok") =>
    (response = NotFound <=> ~Existed)

\* C9: when the posts endpoint answered 201 and updatePublished(id, language, true,
\* link) then reports failure, the answer is 500 'Failed to update tweet status',
\* the failed call is the last call of the request (one post, one store update),
\* and the flags and links of the store are as they were.
C9_UpdateFailure ==
  (Done /\ IsPost /\ AnsweredCreated /\ calls[Len(calls)].out = "false") =>
    /\ response = UpdateFailed
    /\ calls[Len(calls)].op = "updatePublished"
    /\ Cardinality(Calls("updatePublished")) = 1
    /\ Cardinality(Calls("post")) = 1
    /\ StoreUnchanged

C9_Witness ==
  /\ Done /\ IsPost /\ AnsweredCreated /\ calls[Len(calls)].out = "false"
  /\ pre.link[req.id.val][req.language] \in Links

\* the calls of the upload loop, in the order they were made
LoopCalls == SelectSeq(calls, LAMBDA c : c.op \in {"download", "media"})
\* the request passed validation and read a full set of credentials
InLoop == IsPost /\ idx >= 1

C10_Order ==
  InLoop =>
    \* downloads are for URLs 1, 2, ... in this order, each once
    /\ LET d == SelectSeq(calls, LAMBDA c : c.op = "download")
       IN  /\ \A k \in DOMAIN d : d[k].i = k
           /\ Len(d) <= Len(mediaUrls)
           \* an attempt starts only when the one before has returned
           /\ Len(d) - Len(results) \in {0, 1}
    \* a media upload follows the download of the same URL at once, at most once
    /\ \A k \in DOMAIN LoopCalls :
         LoopCalls[k].op = "media" =>
           k > 1 /\ LoopCalls[k - 1].op = "download" /\ LoopCalls[k - 1].i = LoopCalls[k].i
    \* the post is created once, after every attempt has returned
    /\ Cardinality(Calls("post")) <= 1
    /\ \A j \in Calls("post") :
         /\ Len(results) = Len(mediaUrls)
         /\ \A k \in DOMAIN calls : calls[k].op \in {"download", "media"} => k < j
    \* no failure of an image ends the request
    /\ Done => Calls("post") # {}

C10_Uploading == IsPost /\ pc \in {"download", "upload"}
C10_Posted == IsPost /\ Calls("post") # {}

\* C10: the uploads of a publish request are attempted one at a time, in the
\* order of media_urls, each URL once; the post is created once, after the last
\* attempt returned; and whatever fails for an image, the post-creation call is
\* eventually made.
C10_SequentialUploads == []C10_Order /\ (C10_Uploading ~> C10_Posted)

C10_Witness ==
  /\ C10_Posted /\ Len(mediaUrls) = 3
  /\ results[1] = NoImage /\ results[2] # NoImage /\ results[3] = NoImage
  /\ Cardinality(Calls("media")) = 2

====
